---- MODULE Spec2Model ----
(***************************************************************************)
(* Model of tg.controllers.decoratedcontroller.DecoratedController:        *)
(* the dispatch orchestrator _call, the validation runner                  *)
(* _perform_validate, the error classifier _process_validation_errors,    *)
(* the response renderer _render_response and the authorization check      *)
(* _check_security.                                                        *)
(*                                                                         *)
(* Python strings whose content matters (validation messages, parameter    *)
(* values, path segments) are sequences of one-character strings.          *)
(***************************************************************************)
EXTENDS Integers, Sequences, FiniteSets, TLC

VARIABLES
    pc,                 \* position of the request inside _call
    origAction,         \* the action _call was entered with
    params0,            \* the params _call was entered with
    remainder0,         \* the remainder _call was entered with
    action,             \* local `action`
    params,             \* local `params`
    remainder,          \* local `remainder`
    validate_params,    \* local `validate_params`
    args_params,        \* context.request.args_params
    validation,         \* context.request.validation
    instance,           \* local `instance`
    error_handler,      \* local `error_handler`
    chain_validation,   \* local `chain_validation`
    bound_controller_callable,
    invoked,            \* what controller_caller was called with
    output,             \* local `output`
    response,           \* local `response` (the render result)
    resp_content_type,  \* context.response Content-Type header
    testing_variables,  \* req.environ['paste.testing_variables']
    body,               \* value returned by _call
    exc,                \* exception that left _call
    log,                \* events of the current request, in order
    failures,           \* validation failures caught in this request
    chainCount,         \* iterations of the chained-validation loop
    iterOutcome,        \* outcome of the latest _perform_validate
    validated,          \* value the latest successful _perform_validate returned
    lastInvalid,        \* the latest validation failure caught
    checked,            \* the intent checks the latest _perform_validate made
    render_calls,       \* the collaborators _render_response called
    p_msg,              \* generic failure text given to the classifier
    p_before,           \* error map before the classifier ran
    p_errors,           \* error map after the classifier ran
    p_done,             \* the classifier has run
    s_pc,               \* position inside _check_security
    allow_only,         \* the controller's allow_only attribute
    anonymous,          \* the requester is not authenticated
    hook,               \* the controller's _failed_authorization, if any
    reason,             \* local `reason`
    code,               \* local `code`
    status,             \* local `status`
    response_status,    \* tg.response.status
    flashed,            \* the flash message emitted
    aborted,            \* the abort raised
    authorized,         \* value returned by _check_security
    s_log               \* steps of the current denial, in order

vars == <<pc, origAction, params0, remainder0, action, params, remainder,
          validate_params, args_params, validation, instance, error_handler,
          chain_validation, bound_controller_callable, invoked, output,
          response, resp_content_type, testing_variables, body, exc, log,
          failures, chainCount, iterOutcome, validated, lastInvalid,
          checked, render_calls, p_msg, p_before, p_errors, p_done,
          s_pc, allow_only, anonymous, hook, reason, code, status,
          response_status, flashed, aborted, authorized, s_log>>

callVars == <<pc, origAction, params0, remainder0, action, params, remainder,
          validate_params, args_params, validation, instance, error_handler,
          chain_validation, bound_controller_callable, invoked, output,
          response, resp_content_type, testing_variables, body, exc, log,
          failures, chainCount, iterOutcome, validated, lastInvalid,
          checked, render_calls>>

parseVars == <<p_msg, p_before, p_errors, p_done>>

secVars == <<s_pc, allow_only, anonymous, hook, reason, code, status,
             response_status, flashed, aborted, authorized, s_log>>

(***************************************************************************)
(* Bounds                                                                  *)
(***************************************************************************)
MaxChain == 2       \* iterations of the chained-validation loop explored
MaxRemainder == 1   \* positional path segments of a request
MaxStrLen == 4      \* length of the enumerated failure texts

(***************************************************************************)
(* Strings and maps                                                        *)
(***************************************************************************)
Whitespace == {" ", "\t", "\n", "\r"}

EmptyMap == [k \in {} |-> <<>>]

Put_setdefault(m, k, v) ==
    [x \in (DOMAIN m) \cup {k} |-> IF x \in DOMAIN m THEN m[x] ELSE v]

\* lines 281-284: errors[key] = message
Put(m, k, v) == [x \in (DOMAIN m) \cup {k} |-> IF x = k THEN v ELSE m[x]]

Remove(m, k) == [x \in (DOMAIN m) \ {k} |-> m[x]]

Get(m, k, default) == IF k \in DOMAIN m THEN m[k] ELSE default

\* str.strip(): drop leading and trailing whitespace
RECURSIVE LStrip(_)
LStrip(s) ==
    IF s # <<>> /\ Head(s) \in Whitespace THEN LStrip(Tail(s)) ELSE s

RECURSIVE RStrip(_)
RStrip(s) ==
    IF s # <<>> /\ s[Len(s)] \in Whitespace
    THEN RStrip(SubSeq(s, 1, Len(s) - 1)) ELSE s

strip_string(s) == RStrip(LStrip(s))

\* str.split(sep): every occurrence of sep separates two parts
RECURSIVE SplitAll(_, _, _)
SplitAll(s, sep, cur) ==
    IF s = <<>> THEN <<cur>>
    ELSE IF Head(s) = sep THEN <<cur>> \o SplitAll(Tail(s), sep, <<>>)
    ELSE SplitAll(Tail(s), sep, Append(cur, Head(s)))

\* str.split(sep, 1): only the first occurrence of sep separates
RECURSIVE SplitOnce(_, _, _)
SplitOnce(s, sep, cur) ==
    IF s = <<>> THEN <<cur>>
    ELSE IF Head(s) = sep THEN <<cur, Tail(s)>>
    ELSE SplitOnce(Tail(s), sep, Append(cur, Head(s)))

THE_FORM == <<"_", "t", "h", "e", "_", "f", "o", "r", "m">>

GenericLine_every(errors, error) ==
    LET parts == SplitAll(error, ":", <<>>)
        field_value == [i \in 1..Len(parts) |-> strip_string(parts[i])]
    IN  IF Len(field_value) = 1
        THEN Put(errors, THE_FORM, field_value[1])
        ELSE Put(errors, field_value[1], field_value[2])

\* one pass of the loop body over a line of the failure text
GenericLine(errors, error) ==
    LET parts == SplitOnce(error, ":", <<>>)
        field_value == [i \in 1..Len(parts) |-> strip_string(parts[i])]
    IN  IF Len(field_value) = 1
        THEN Put(errors, THE_FORM, field_value[1])
        ELSE Put(errors, field_value[1], field_value[2])

RECURSIVE GenericLoop(_, _)
GenericLoop(errors, error_list) ==
    IF error_list = <<>> THEN errors
    ELSE GenericLoop(GenericLine(errors, Head(error_list)), Tail(error_list))

\* the generic branch: the text is split into lines, each written into the map
GenericErrors(errors, text) ==
    GenericLoop(errors, SplitAll(text, "\n", <<>>))

(***************************************************************************)
(* Controller methods and their decorations                                *)
(***************************************************************************)
NoObject == "None"

\* a method is an underlying function and the instance it is bound to
Method(f, obj) == [func |-> f, self |-> obj]

NoMethod == Method("None", NoObject)

im_self(m) == m.self

default_im_func(m) == Method(m.func, NoObject)

\* the actions the dispatcher can resolve, bound to the controller instance
Actions == {Method("index", "root"), Method("save", "root"), Method("edit", "root")}

\* decoration.validations of each function: the validation intents, in order
Validations(f) ==
    CASE f = "save" -> <<"V1", "V2">>
      [] f = "edit" -> <<"V3">>
      [] f = "h1"   -> <<"V4", "V5", "V6">>
      [] OTHER      -> <<>>

\* the error handler each validation intent names
IntentErrorHandler(v) ==
    CASE v = "V2" -> Method("h1", NoObject)
      [] v = "V3" -> Method("h3", "other")
      [] v = "V4" -> Method("h1", NoObject)
      [] v = "V6" -> Method("h2", NoObject)
      [] OTHER    -> NoMethod

\* whether each validation intent asks for chained validation
IntentChainValidation(v) == v \in {"V1", "V2", "V3", "V4", "V5"}

\* declared parameter names of each function (without self)
ArgVars(f) ==
    CASE f \in {"index", "save", "h1"} -> <<"a">>
      [] OTHER -> <<>>

\* decoration.controller_caller of each function
ControllerCaller(f) == <<"controller_caller", f>>

(***************************************************************************)
(* Request values                                                          *)
(***************************************************************************)
NoneValue == <<"None">>

ParamNames == {"a"}

ParamValues == {<<"x">>, <<"y">>}

ParamMaps == UNION {[d -> ParamValues] : d \in SUBSET ParamNames}

\* a path segment is raw text; "%78" is the escaped form of "x"
Segments == {<<"x">>, <<"%", "7", "8">>}

Remainders == UNION {[1..n -> Segments] : n \in 0..MaxRemainder}

\* url2pathname: unquote the %xx escapes of a path segment
RECURSIVE url2pathname(_)
url2pathname(s) ==
    IF s = <<>> THEN <<>>
    ELSE IF Len(s) >= 3 /\ SubSeq(s, 1, 3) = <<"%", "7", "8">>
         THEN <<"x">> \o url2pathname(SubSeq(s, 4, Len(s)))
         ELSE <<Head(s)>> \o url2pathname(Tail(s))

\* crank.util.get_params_with_argspec: positional segments are written into
\* the params under the declared parameter names, in declaration order
RECURSIVE MergeLoop(_, _, _, _)
MergeLoop(argvars, p, rem, i) ==
    IF i > Len(argvars) \/ i > Len(rem) THEN p
    ELSE MergeLoop(argvars, Put(p, argvars[i], rem[i]), rem, i + 1)

get_params_with_argspec(m, p, rem) ==
    IF ArgVars(m.func) # <<>> /\ rem # <<>>
    THEN MergeLoop(ArgVars(m.func), p, rem, 1)
    ELSE p

\* crank.util.flatten_arguments: declared parameters found in the params
\* move to their position in the positional arguments
RECURSIVE FlattenLoop(_, _, _, _)
FlattenLoop(argvars, p, rem, i) ==
    IF i > Len(argvars) THEN [remainder |-> rem, params |-> p]
    ELSE LET var == argvars[i]
             val == Get(p, var, NoneValue)
         IN  IF i <= Len(rem)
             THEN FlattenLoop(argvars, Remove(p, var),
                              [rem EXCEPT ![i] = val], i + 1)
             ELSE IF var \in DOMAIN p
             THEN FlattenLoop(argvars, Remove(p, var), Append(rem, val), i + 1)
             ELSE [remainder |-> rem, params |-> p]

flatten_arguments(m, p, rem) == FlattenLoop(ArgVars(m.func), p, rem, 1)

(***************************************************************************)
(* Validation failures                                                     *)
(***************************************************************************)
NoException == [shape |-> "None"]

OtherError == [shape |-> "other"]

MsgAB == <<"a", ":", " ", "b", "a", "d", "\n", "b", ":", " ", "b", "a", "d", "2">>

MsgForm == <<"o", "v", "e", "r", "a", "l", "l", " ", "b", "a", "d">>

\* two lines for the same field, and two lines without a colon
MsgDupField == <<"a", ":", " ", "x", "\n", "a", ":", " ", "y">>

MsgDupForm == <<"x", "\n", "y">>

\* the shapes of validation_errors: generic text, TGValidationError,
\* _Tw2ValidationError
Invalids ==
    { [shape |-> "generic", text |-> MsgAB, has_value |-> FALSE,
       value |-> EmptyMap],
      [shape |-> "generic", text |-> MsgForm, has_value |-> TRUE,
       value |-> [n \in {"a"} |-> <<"x">>]],
      [shape |-> "tg", error_dict |-> [k \in {<<"a">>} |-> <<"m", "1">>],
       value |-> [n \in {"a"} |-> <<"y">>]],
      [shape |-> "tw2",
       children |-> << [compound_key |-> <<"f", "1">>, error_msg |-> <<"m", "1">>],
                       [compound_key |-> <<"f", "2">>, error_msg |-> <<"m", "2">>] >>,
       value |-> [n \in {"b"} |-> <<"y">>]] }

\* validation_errors: the exception types _call catches
IsValidationError(e) == e.shape \in {"generic", "tg", "tw2"}

\* _ValidationStatus(): the status a request starts with
NewValidationStatus ==
    [errors |-> EmptyMap, values |-> EmptyMap, exception |-> NoException,
     intent |-> "None"]

\* _ValidationStatus.error_handler
StatusErrorHandler(st) ==
    IF st.intent = "None" THEN NoMethod ELSE IntentErrorHandler(st.intent)

\* _ValidationStatus.chain_validation
StatusChainValidation(st) ==
    IF st.intent = "None" THEN FALSE ELSE IntentChainValidation(st.intent)

\* validation_intent.check when it accepts: the cleaned parameters
Check(v, p) == [n \in DOMAIN p |-> Append(p[n], v)]

\* how one run of _perform_validate goes: every intent accepts (failAt = 0),
\* or intent number failAt raises `raises`
Outcomes(m) ==
    {[failAt |-> 0, raises |-> NoException]} \cup
    [failAt : 1..Len(Validations(m.func)), raises : Invalids \cup {OtherError}]

SetIntent_skip(st, validation_intent) == st

\* line 171: validation_status.intent = validation_intent
SetIntent(st, validation_intent) == [st EXCEPT !.intent = validation_intent]

\* the loop of _perform_validate from intent i on; calls records, for each
\* check made, the intent, what it was given and the status's intent then
RECURSIVE ValidateLoop(_, _, _, _, _)
ValidateLoop(vs, i, validated_params, st, oc) ==
    IF i > Len(vs)
    THEN [result |-> "ok", params |-> validated_params, status |-> st,
          raises |-> NoException, calls |-> <<>>]
    ELSE LET st1 == SetIntent(st, vs[i])
             call == [intent |-> vs[i], input |-> validated_params,
                      status_intent |-> st1.intent]
         IN  IF oc.failAt = i
             THEN [result |-> "raise", params |-> validated_params,
                   status |-> st1, raises |-> oc.raises, calls |-> <<call>>]
             ELSE LET r == ValidateLoop(vs, i + 1,
                                        Check(vs[i], validated_params), st1, oc)
                  IN  [r EXCEPT !.calls = <<call>> \o r.calls]

_perform_validate_empty(controller, p, st, oc) ==
    LET validations == Validations(controller.func)
    IN  IF validations = <<>>
        THEN [result |-> "ok", params |-> EmptyMap, status |-> st,
              raises |-> NoException, calls |-> <<>>]
        ELSE ValidateLoop(validations, 1, p, st, oc)

_perform_validate(controller, p, st, oc) ==
    LET validations == Validations(controller.func)
    IN  IF validations = <<>>
        THEN [result |-> "ok", params |-> p, status |-> st,
              raises |-> NoException, calls |-> <<>>]
        ELSE ValidateLoop(validations, 1, p, st, oc)

\* dict((child.compound_key, child.error_msg) for child in widget_children)
RECURSIVE ChildErrors(_, _)
ChildErrors(errors, children) ==
    IF children = <<>> THEN errors
    ELSE ChildErrors(Put(errors, Head(children).compound_key,
                         Head(children).error_msg), Tail(children))

\* _navigate_tw2form_children: the widgets below the root that carry a key
_navigate_tw2form_children(exception) == exception.children

ClassifyErrors_fresh(st, exception) ==
    LET st1 == [st EXCEPT !.exception = exception]
    IN  CASE exception.shape = "tw2" ->
               [st1 EXCEPT
                  !.errors = ChildErrors(EmptyMap,
                                 _navigate_tw2form_children(exception)),
                  !.values = exception.value]
          [] exception.shape = "tg" ->
               [st1 EXCEPT !.errors = exception.error_dict,
                           !.values = exception.value]
          [] OTHER ->
               [st1 EXCEPT
                  !.errors = GenericErrors(EmptyMap, exception.text),
                  !.values = IF exception.has_value THEN exception.value
                             ELSE EmptyMap]

\* the validation status after the failure was recorded
ClassifyErrors(st, exception) ==
    LET st1 == [st EXCEPT !.exception = exception]
    IN  CASE exception.shape = "tw2" ->
               [st1 EXCEPT
                  !.errors = ChildErrors(EmptyMap,
                                 _navigate_tw2form_children(exception)),
                  !.values = exception.value]
          [] exception.shape = "tg" ->
               [st1 EXCEPT !.errors = exception.error_dict,
                           !.values = exception.value]
          [] OTHER ->
               [st1 EXCEPT
                  !.errors = GenericErrors(st1.errors, exception.text),
                  !.values = IF exception.has_value THEN exception.value
                             ELSE EmptyMap]

SelectHandler_chain(controller, st) ==
    IF StatusErrorHandler(st) = NoMethod
    THEN [error_handler |-> default_im_func(controller),
          chain_validation |-> StatusChainValidation(st)]
    ELSE [error_handler |-> StatusErrorHandler(st),
          chain_validation |-> StatusChainValidation(st)]

\* the handler and the chaining flag taken from the status, or the fallback
SelectHandler(controller, st) ==
    IF StatusErrorHandler(st) = NoMethod
    THEN [error_handler |-> default_im_func(controller),
          chain_validation |-> FALSE]
    ELSE [error_handler |-> StatusErrorHandler(st),
          chain_validation |-> StatusChainValidation(st)]

_process_validation_errors(controller, rem, p, exception, st) ==
    LET st1 == ClassifyErrors(st, exception)
        sel == SelectHandler(controller, st1)
    IN  [status |-> st1, instance |-> im_self(controller),
         error_handler |-> sel.error_handler,
         chain_validation |-> sel.chain_validation]

\* a Content-Type header value: a string, or no header at all
ContentType(v) == [present |-> TRUE, value |-> v]

NoContentType == [present |-> FALSE, value |-> <<>>]

BlankContentType == ContentType(<<>>)

TextPlainUtf8 ==
    <<"t", "e", "x", "t", "/", "p", "l", "a", "i", "n", ";", " ", "c", "h",
      "a", "r", "s", "e", "t", "=", "u", "t", "f", "-", "8">>

ApplicationJson ==
    <<"a", "p", "p", "l", "i", "c", "a", "t", "i", "o", "n", "/", "j", "s",
      "o", "n">>

TextHtmlLatin1 ==
    <<"t", "e", "x", "t", "/", "h", "t", "m", "l", ";", " ", "c", "h", "a",
      "r", "s", "e", "t", "=", "i", "s", "o", "-", "8", "8", "5", "9", "-",
      "1">>

ImagePng == <<"i", "m", "a", "g", "e", "/", "p", "n", "g">>

TextCsv == <<"t", "e", "x", "t", "/", "c", "s", "v">>

\* the Content-Type header a response can carry when _call is entered
InitialContentTypes ==
    {NoContentType, BlankContentType, ContentType(TextPlainUtf8)}

\* what decoration.lookup_template_engine can resolve
Engines ==
    { [content_type |-> ContentType(ApplicationJson),
       engine_name |-> "json", template_name |-> "None",
       exclude_names |-> <<"y", "z">>, render_params |-> "compact"],
      [content_type |-> ContentType(TextHtmlLatin1),
       engine_name |-> "kajiki", template_name |-> "page.xhtml",
       exclude_names |-> <<>>, render_params |-> "None"],
      [content_type |-> ContentType(TextCsv),
       engine_name |-> "csv", template_name |-> "None",
       exclude_names |-> <<"y">>, render_params |-> "None"],
      [content_type |-> ContentType(ImagePng),
       engine_name |-> "chart", template_name |-> "None",
       exclude_names |-> <<>>, render_params |-> "None"],
      [content_type |-> NoContentType,
       engine_name |-> "raw", template_name |-> "None",
       exclude_names |-> <<"x">>, render_params |-> "None"] }

\* controller.decoration.lookup_template_engine(tgl): the engines exposed
\* on the controller, one of which the request selects
lookup_template_engine(controller) ==
    LET names == CASE controller.func = "index" -> {"json", "kajiki"}
                   [] controller.func = "save"  -> {"csv"}
                   [] controller.func = "edit"  -> {"chart"}
                   [] controller.func = "h1"    -> {"raw"}
                   [] controller.func = "h2"    -> {"json"}
                   [] OTHER                     -> {"kajiki"}
    IN  {eng \in Engines : eng.engine_name \in names}

NoOutput == [kind |-> "none"]

\* what a controller method can return: a finished string, a list or a
\* mapping
Outputs ==
    { [kind |-> "str", text |-> <<"o", "k">>],
      [kind |-> "list", items |-> <<"x", "y">>],
      [kind |-> "dict", map |-> [k \in {"x", "y"} |-> IF k = "x" THEN <<"1">> ELSE <<"2">>]] }

\* resp.content_type is None
ContentTypeIsNone(ct) == ~ct.present

\* content_type.startswith(prefix)
StartsWith(s, prefix) ==
    /\ Len(s) >= Len(prefix)
    /\ SubSeq(s, 1, Len(prefix)) = prefix

\* sub in content_type
Contains(s, sub) ==
    \E i \in 1..(Len(s) - Len(sub) + 1) : SubSeq(s, i, i + Len(sub) - 1) = sub

\* the media types that get a charset appended without starting with 'text'
CharsetMimes ==
    { <<"a", "p", "p", "l", "i", "c", "a", "t", "i", "o", "n", "/", "x", "h",
        "t", "m", "l", "+", "x", "m", "l">>,
      <<"a", "p", "p", "l", "i", "c", "a", "t", "i", "o", "n", "/", "x", "m",
        "l">>,
      ApplicationJson }

CharsetUtf8 ==
    <<";", " ", "c", "h", "a", "r", "s", "e", "t", "=", "u", "t", "f", "-",
      "8">>

\* lines 207-213: the header value after resp.content_type is assigned
AppendCharset(content_type) ==
    IF /\ ~Contains(content_type, <<"c", "h", "a", "r", "s", "e", "t">>)
       /\ \/ StartsWith(content_type, <<"t", "e", "x", "t">>)
          \/ content_type \in CharsetMimes
    THEN content_type \o CharsetUtf8
    ELSE content_type

SuggestContentType_plain(ct, engine_content_type) ==
    IF ContentTypeIsNone(ct) /\ engine_content_type.present
    THEN engine_content_type
    ELSE ct

\* lines 202-213: the response content type after the engine's suggestion
SuggestContentType(ct, engine_content_type) ==
    IF ContentTypeIsNone(ct) /\ engine_content_type.present
    THEN ContentType(AppendCharset(engine_content_type.value))
    ELSE ct

PopNames_none(namespace, names) == namespace

\* lines 221-223: every excluded name is popped from the namespace
RECURSIVE PopNames(_, _)
PopNames(namespace, names) ==
    IF names = <<>> THEN namespace
    ELSE PopNames(Remove(namespace, Head(names)), Tail(names))

\* tg_render: the rendered text is determined by what the renderer is given
tg_render(namespace, eng) ==
    [kind |-> "rendered", template_vars |-> namespace,
     template_engine |-> eng.engine_name, template_name |-> eng.template_name,
     render_params |-> eng.render_params]

NoResponse == [response |-> NoOutput]

NoTestingVariables == [set |-> FALSE]

SkipRender_none(result) == [result EXCEPT !.response = NoOutput]

\* lines 216-217: a response that is not a dict is returned as it came
SkipRender(result) == result

\* _render_response: the render result, the response content type, the
\* testing side channel, the controller's output object after the call and
\* the collaborators called
_render_response(controller, ct, eng, out, testing) ==
    LET lookup == [call |-> "lookup_template_engine",
                   decoration |-> controller.func]
        result == [response |-> out, content_type |-> eng.content_type,
                   engine_name |-> eng.engine_name,
                   template_name |-> eng.template_name]
        ct1 == SuggestContentType(ct, eng.content_type)
    IN  IF out.kind # "dict"
        THEN [result |-> SkipRender(result), content_type |-> ct1,
              testing_variables |-> NoTestingVariables,
              output |-> out, calls |-> <<lookup>>]
        ELSE LET namespace == PopNames(out.map, eng.exclude_names)
             IN  [result |-> [result EXCEPT !.response = tg_render(namespace, eng)],
                  content_type |-> ct1,
                  testing_variables |->
                      IF testing
                      THEN [set |-> TRUE, namespace |-> namespace,
                            template_name |-> eng.template_name,
                            exclude_names |-> eng.exclude_names,
                            render_params |-> eng.render_params,
                            controller_output |-> namespace]
                      ELSE NoTestingVariables,
                  output |-> [out EXCEPT !.map = namespace],
                  calls |-> <<lookup, [call |-> "tg_render",
                                        decoration |-> controller.func]>>]

(***************************************************************************)
(* The request: _call, one action per step                                 *)
(***************************************************************************)
NotBound == [kind |-> "none", callable |-> NoMethod, first |-> NoObject]

\* bound_controller_callable = action
BoundMethod(m) == [kind |-> "method", callable |-> m, first |-> NoObject]

\* bound_controller_callable = partial(error_handler, instance)
Partial(h, inst) == [kind |-> "partial", callable |-> h, first |-> inst]

NotInvoked ==
    [caller |-> <<>>, callable |-> NotBound, remainder |-> <<>>,
     params |-> EmptyMap]

\* a step of the request: what ran, for which controller, with which
\* arguments, and what it let escape
Event(e, m, rem, p, r) ==
    [ev |-> e, controller |-> m, remainder |-> rem, params |-> p, raised |-> r]

\* what a hook or a controller method may raise: a validation failure or
\* any other exception
Raisable ==
    {[shape |-> "generic", text |-> MsgForm, has_value |-> FALSE,
      value |-> EmptyMap], OtherError}

CallInit ==
    /\ pc = "idle"
    /\ origAction = NoMethod
    /\ params0 = EmptyMap
    /\ remainder0 = <<>>
    /\ action = NoMethod
    /\ params = EmptyMap
    /\ remainder = <<>>
    /\ validate_params = EmptyMap
    /\ args_params = EmptyMap
    /\ validation = NewValidationStatus
    /\ instance = NoObject
    /\ error_handler = NoMethod
    /\ chain_validation = FALSE
    /\ bound_controller_callable = NotBound
    /\ invoked = NotInvoked
    /\ output = NoOutput
    /\ response = NoResponse
    /\ resp_content_type = NoContentType
    /\ testing_variables = NoTestingVariables
    /\ body = NoOutput
    /\ exc = NoException
    /\ log = <<>>
    /\ failures = 0
    /\ chainCount = 0
    /\ iterOutcome = "none"
    /\ validated = EmptyMap
    /\ lastInvalid = NoException
    /\ checked = <<>>
    /\ render_calls = <<>>

\* the reason of a check that has not failed
NoReason == "None"

\* tg.response.status of a response nothing was denied on
OK == 200

NoFlash == [message |-> NoReason, status |-> "None"]

NoAbort == [code |-> OK, comment |-> NoReason]

\* no security check is running
SecIdle ==
    /\ s_pc = "idle"
    /\ allow_only = [kind |-> "none", denies |-> FALSE, msg |-> NoReason]
    /\ anonymous = TRUE
    /\ hook = "absent"
    /\ reason = NoReason
    /\ code = OK
    /\ status = "ok"
    /\ response_status = OK
    /\ flashed = NoFlash
    /\ aborted = NoAbort
    /\ authorized = "unset"
    /\ s_log = <<>>

Init ==
    /\ CallInit
    /\ SecIdle
    /\ p_msg = <<>>
    /\ p_before = EmptyMap
    /\ p_errors = EmptyMap
    /\ p_done = FALSE

InstallValidation_keep(old) == old

\* line 82: the request gets a new validation status
InstallValidation(old) == NewValidationStatus

\* lines 76-94: a request enters _call
Enter(a, p, rem, ct) ==
    /\ pc = "idle"
    /\ pc' = "before_validate"
    /\ origAction' = a
    /\ params0' = p
    /\ remainder0' = rem
    /\ action' = a
    /\ params' = p
    /\ validation' = InstallValidation(validation)
    /\ resp_content_type' = IF ct = BlankContentType THEN NoContentType ELSE ct
    /\ remainder' = IF rem # <<>>
                    THEN [i \in 1..Len(rem) |-> url2pathname(rem[i])]
                    ELSE <<>>
    /\ UNCHANGED <<validate_params, args_params, instance, error_handler,
                   chain_validation, bound_controller_callable, invoked,
                   output, response, testing_variables, body, exc, log,
                   failures, chainCount, iterOutcome, validated, lastInvalid,
                   checked,
                   render_calls, parseVars, secVars>>

Propagate_swallow(next, raises) ==
    IF raises = NoException \/ ~IsValidationError(raises)
    THEN pc' = next /\ exc' = exc
    ELSE pc' = "raised" /\ exc' = raises

\* lines 96 and 125-138 run outside any try block: what a step raises
\* leaves _call
Propagate(next, raises) ==
    IF raises = NoException
    THEN pc' = next /\ exc' = exc
    ELSE pc' = "raised" /\ exc' = raises

Notify_skip(name, next, raises) ==
    /\ log' = IF name = "before_render" THEN log
              ELSE Append(log, Event(name, action, remainder, params, raises))
    /\ Propagate(next, raises)

\* hooks.notify(name, ...): the hook is notified and may raise
Notify(name, next, raises) ==
    /\ log' = Append(log, Event(name, action, remainder, params, raises))
    /\ Propagate(next, raises)

\* lines 103 and 112: a validation failure is caught, anything else escapes
Escaping(raises) == IF IsValidationError(raises) THEN NoException ELSE raises

ChainTarget_action == action

\* line 111: the controller the chained validation is run against
ChainTarget == error_handler

ChainAfterPass_keep(flag) == flag

\* lines 116-117: the chaining flag after the error handler validated
ChainAfterPass(flag) == FALSE

\* line 96
NotifyBeforeValidate(raises) ==
    /\ pc = "before_validate"
    /\ Notify("before_validate", "merge", raises)
    /\ UNCHANGED <<origAction, params0, remainder0, action, params, remainder,
                   validate_params, args_params, validation, instance,
                   error_handler, chain_validation, bound_controller_callable,
                   invoked, output, response, resp_content_type,
                   testing_variables, body, failures, chainCount, iterOutcome,
                   validated, lastInvalid, checked,
                   render_calls, parseVars, secVars>>

\* lines 98-99
MergeParams ==
    /\ pc = "merge"
    /\ pc' = "validate"
    /\ validate_params' = get_params_with_argspec(action, params, remainder)
    /\ args_params' = validate_params'
    /\ UNCHANGED <<origAction, params0, remainder0, action, params, remainder,
                   validation, instance, error_handler, chain_validation,
                   bound_controller_callable, invoked, output, response,
                   resp_content_type, testing_variables, body, exc, log,
                   failures, chainCount, iterOutcome, validated, lastInvalid,
                   checked,
                   render_calls, parseVars, secVars>>

StoreValues_skip(st, p) == st

\* line 122: the validated parameters are stored on the validation status
StoreValues(st, p) == [st EXCEPT !.values = p]

\* lines 101-106 and 120-123: validation of the action
Validate(oc) ==
    /\ pc = "validate"
    /\ LET res == _perform_validate(action, validate_params, validation, oc)
       IN  /\ log' = Append(log, Event("validate", action, remainder, params,
                                       Escaping(res.raises)))
           /\ checked' = res.calls
           /\ IF res.result = "ok"
              THEN LET flat == flatten_arguments(action, res.params, remainder)
                   IN  /\ pc' = "before_call"
                       /\ bound_controller_callable' = BoundMethod(action)
                       /\ validation' = StoreValues(res.status, res.params)
                       /\ remainder' = flat.remainder
                       /\ params' = flat.params
                       /\ iterOutcome' = "passed"
                       /\ validated' = res.params
                       /\ UNCHANGED <<instance, error_handler, chain_validation,
                                      exc, failures, lastInvalid>>
              ELSE IF IsValidationError(res.raises)
              THEN LET pr == _process_validation_errors(action, remainder,
                                    params, res.raises, res.status)
                   IN  /\ pc' = "chain"
                       /\ validation' = pr.status
                       /\ instance' = pr.instance
                       /\ error_handler' = pr.error_handler
                       /\ chain_validation' = pr.chain_validation
                       /\ iterOutcome' = "failed"
                       /\ failures' = failures + 1
                       /\ lastInvalid' = res.raises
                       /\ UNCHANGED <<bound_controller_callable, remainder,
                                      params, exc, validated>>
              ELSE /\ pc' = "raised"
                   /\ exc' = res.raises
                   /\ validation' = res.status
                   /\ iterOutcome' = "error"
                   /\ UNCHANGED <<instance, error_handler, chain_validation,
                                  bound_controller_callable, remainder, params,
                                  failures, validated, lastInvalid>>
    /\ UNCHANGED <<origAction, params0, remainder0, action, validate_params,
                   args_params, invoked, output, response, resp_content_type,
                   testing_variables, body, chainCount, render_calls, parseVars, secVars>>

\* lines 107-117: one iteration of the chained-validation loop
ChainValidate(oc) ==
    /\ pc = "chain"
    /\ chain_validation
    /\ chainCount < MaxChain
    /\ chainCount' = chainCount + 1
    /\ LET res == _perform_validate(ChainTarget, validate_params, validation, oc)
       IN  /\ log' = Append(log, Event("chain_validate", error_handler,
                                       remainder, params,
                                       Escaping(res.raises)))
           /\ checked' = res.calls
           /\ IF res.result = "ok"
              THEN /\ pc' = "chain"
                   /\ params' = res.params
                   /\ validation' = res.status
                   /\ chain_validation' = ChainAfterPass(chain_validation)
                   /\ iterOutcome' = "passed"
                   /\ validated' = res.params
                   /\ UNCHANGED <<instance, error_handler, exc, failures,
                                  lastInvalid>>
              ELSE IF IsValidationError(res.raises)
              THEN LET pr == _process_validation_errors(error_handler, remainder,
                                    params, res.raises, res.status)
                   IN  /\ pc' = "chain"
                       /\ validation' = pr.status
                       /\ instance' = pr.instance
                       /\ error_handler' = pr.error_handler
                       /\ chain_validation' = pr.chain_validation
                       /\ iterOutcome' = "failed"
                       /\ failures' = failures + 1
                       /\ lastInvalid' = res.raises
                       /\ UNCHANGED <<params, exc, validated>>
              ELSE /\ pc' = "raised"
                   /\ exc' = res.raises
                   /\ validation' = res.status
                   /\ iterOutcome' = "error"
                   /\ UNCHANGED <<instance, error_handler, chain_validation,
                                  params, failures, validated, lastInvalid>>
    /\ UNCHANGED <<origAction, params0, remainder0, action, remainder,
                   validate_params, args_params, bound_controller_callable,
                   invoked, output, response, resp_content_type,
                   testing_variables, body, render_calls, parseVars, secVars>>

BindErrorHandler_keep ==
    /\ pc = "chain"
    /\ ~chain_validation
    /\ pc' = "before_call"
    /\ action' = action
    /\ bound_controller_callable' = Partial(error_handler, instance)
    /\ UNCHANGED <<origAction, params0, remainder0, params, remainder,
                   validate_params, args_params, validation, instance,
                   error_handler, chain_validation, invoked, output, response,
                   resp_content_type, testing_variables, body, exc, log,
                   failures, chainCount, iterOutcome, validated, lastInvalid,
                   checked,
                   render_calls, parseVars, secVars>>

\* lines 118-119: the loop is over, the error handler replaces the action
BindErrorHandler ==
    /\ pc = "chain"
    /\ ~chain_validation
    /\ pc' = "before_call"
    /\ action' = error_handler
    /\ bound_controller_callable' = Partial(error_handler, instance)
    /\ UNCHANGED <<origAction, params0, remainder0, params, remainder,
                   validate_params, args_params, validation, instance,
                   error_handler, chain_validation, invoked, output, response,
                   resp_content_type, testing_variables, body, exc, log,
                   failures, chainCount, iterOutcome, validated, lastInvalid,
                   checked,
                   render_calls, parseVars, secVars>>

\* line 125
NotifyBeforeCall(raises) ==
    /\ pc = "before_call"
    /\ Notify("before_call", "call", raises)
    /\ UNCHANGED <<origAction, params0, remainder0, action, params, remainder,
                   validate_params, args_params, validation, instance,
                   error_handler, chain_validation, bound_controller_callable,
                   invoked, output, response, resp_content_type,
                   testing_variables, body, failures, chainCount, iterOutcome,
                   validated, lastInvalid, checked,
                   render_calls, parseVars, secVars>>

\* lines 128-129: the bound callable is invoked through the controller_caller
Invoke(out, raises) ==
    /\ pc = "call"
    /\ log' = Append(log, Event("call", action, remainder, params, raises))
    /\ invoked' = [caller |-> ControllerCaller(action.func),
                   callable |-> bound_controller_callable,
                   remainder |-> remainder, params |-> params]
    /\ output' = IF raises = NoException THEN out ELSE output
    /\ Propagate("before_render", raises)
    /\ UNCHANGED <<origAction, params0, remainder0, action, params, remainder,
                   validate_params, args_params, validation, instance,
                   error_handler, chain_validation, bound_controller_callable,
                   response, resp_content_type, testing_variables, body,
                   failures, chainCount, iterOutcome, validated, lastInvalid,
                   checked,
                   render_calls, parseVars, secVars>>

\* line 132
NotifyBeforeRender(raises) ==
    /\ pc = "before_render"
    /\ Notify("before_render", "render", raises)
    /\ UNCHANGED <<origAction, params0, remainder0, action, params, remainder,
                   validate_params, args_params, validation, instance,
                   error_handler, chain_validation, bound_controller_callable,
                   invoked, output, response, resp_content_type,
                   testing_variables, body, failures, chainCount, iterOutcome,
                   validated, lastInvalid, checked,
                   render_calls, parseVars, secVars>>

\* line 134
Render(eng, testing, raises) ==
    /\ pc = "render"
    /\ eng \in lookup_template_engine(action)
    /\ log' = Append(log, Event("render", action, remainder, params, raises))
    /\ Propagate("after_render", raises)
    /\ IF raises = NoException
       THEN LET r == _render_response(action, resp_content_type, eng, output,
                                      testing)
            IN  /\ response' = r.result
                /\ resp_content_type' = r.content_type
                /\ testing_variables' = r.testing_variables
                /\ output' = r.output
                /\ render_calls' = r.calls
       ELSE UNCHANGED <<response, resp_content_type, testing_variables,
                        output, render_calls>>
    /\ UNCHANGED <<origAction, params0, remainder0, action, params, remainder,
                   validate_params, args_params, validation, instance,
                   error_handler, chain_validation, bound_controller_callable,
                   invoked, body, failures, chainCount, iterOutcome,
                   validated, lastInvalid, checked, parseVars, secVars>>

\* line 136
NotifyAfterRender(raises) ==
    /\ pc = "after_render"
    /\ Notify("after_render", "return", raises)
    /\ UNCHANGED <<origAction, params0, remainder0, action, params, remainder,
                   validate_params, args_params, validation, instance,
                   error_handler, chain_validation, bound_controller_callable,
                   invoked, output, response, resp_content_type,
                   testing_variables, body, failures, chainCount, iterOutcome,
                   validated, lastInvalid, checked,
                   render_calls, parseVars, secVars>>

\* line 138
Return ==
    /\ pc = "return"
    /\ pc' = "done"
    /\ body' = response.response
    /\ log' = Append(log, Event("return", action, remainder, params,
                                NoException))
    /\ UNCHANGED <<origAction, params0, remainder0, action, params, remainder,
                   validate_params, args_params, validation, instance,
                   error_handler, chain_validation, bound_controller_callable,
                   invoked, output, response, resp_content_type,
                   testing_variables, exc, failures, chainCount, iterOutcome,
                   validated, lastInvalid, checked,
                   render_calls, parseVars, secVars>>

\* _call is left, by return or by an exception: its frame and the response
\* are discarded, the request keeps its validation status
Leave ==
    /\ pc \in {"done", "raised"}
    /\ pc' = "idle"
    /\ origAction' = NoMethod
    /\ params0' = EmptyMap
    /\ remainder0' = <<>>
    /\ action' = NoMethod
    /\ params' = EmptyMap
    /\ remainder' = <<>>
    /\ validate_params' = EmptyMap
    /\ instance' = NoObject
    /\ error_handler' = NoMethod
    /\ chain_validation' = FALSE
    /\ bound_controller_callable' = NotBound
    /\ invoked' = NotInvoked
    /\ output' = NoOutput
    /\ response' = NoResponse
    /\ body' = NoOutput
    /\ exc' = NoException
    /\ log' = <<>>
    /\ failures' = 0
    /\ chainCount' = 0
    /\ iterOutcome' = "none"
    /\ validated' = EmptyMap
    /\ lastInvalid' = NoException
    /\ args_params' = EmptyMap
    /\ resp_content_type' = NoContentType
    /\ testing_variables' = NoTestingVariables
    /\ checked' = <<>>
    /\ render_calls' = <<>>
    /\ UNCHANGED <<validation, parseVars, secVars>>

Next ==
    \/ \E a \in Actions, p \in ParamMaps, rem \in Remainders,
          ct \in InitialContentTypes : Enter(a, p, rem, ct)
    \/ \E raises \in Raisable \cup {NoException} : NotifyBeforeValidate(raises)
    \/ MergeParams
    \/ \E oc \in Outcomes(action) : Validate(oc)
    \/ \E oc \in Outcomes(error_handler) : ChainValidate(oc)
    \/ BindErrorHandler
    \/ \E raises \in Raisable \cup {NoException} : NotifyBeforeCall(raises)
    \/ \E out \in Outputs, raises \in Raisable \cup {NoException} :
          Invoke(out, raises)
    \/ \E raises \in Raisable \cup {NoException} : NotifyBeforeRender(raises)
    \/ \E eng \in Engines, testing \in BOOLEAN,
          raises \in {NoException, OtherError} : Render(eng, testing, raises)
    \/ \E raises \in Raisable \cup {NoException} : NotifyAfterRender(raises)
    \/ Return
    \/ Leave

Spec == Init /\ [][Next]_vars

\* the interpreter keeps executing the request it is running
FairSpec == Spec /\ WF_vars(Next)

(***************************************************************************)
(* The generic branch of the classifier on its own, over every short text  *)
(***************************************************************************)
TextAlphabet == {"a", ":", " ", "\n"}

Texts == UNION {[1..n -> TextAlphabet] : n \in 0..MaxStrLen}

\* an error map already holding the entry of an earlier failure
EarlierErrors == [k \in {<<"a">>} |-> <<"o", "l", "d">>]

ParseInit ==
    /\ CallInit
    /\ SecIdle
    /\ p_msg \in Texts \cup {MsgAB, MsgForm, MsgDupField, MsgDupForm}
    /\ p_before \in {EmptyMap, EarlierErrors}
    /\ p_errors = EmptyMap
    /\ p_done = FALSE

\* _process_validation_errors is given a generic failure carrying p_msg
ClassifyGeneric ==
    /\ ~p_done
    /\ p_done' = TRUE
    /\ p_errors' =
         ClassifyErrors([NewValidationStatus EXCEPT !.errors = p_before],
                        [shape |-> "generic", text |-> p_msg,
                         has_value |-> FALSE, value |-> EmptyMap]).errors
    /\ UNCHANGED <<p_msg, p_before, callVars, secVars>>

ParseNext == ClassifyGeneric

ParseSpec == ParseInit /\ [][ParseNext]_vars

(***************************************************************************)
(* _check_security: one action per step                                    *)
(***************************************************************************)
\* the values of the attribute allow_only: none, a full requirement (which
\* builds the response itself) or a bare predicate (met, or unmet with the
\* message of its NotAuthorizedError)
AllowOnlys ==
    { [kind |-> "none", denies |-> FALSE, msg |-> NoReason],
      [kind |-> "requirement", denies |-> FALSE, msg |-> NoReason],
      [kind |-> "requirement", denies |-> TRUE, msg |-> NoReason],
      [kind |-> "predicate", denies |-> FALSE, msg |-> NoReason],
      [kind |-> "predicate", denies |-> TRUE, msg |-> "denied"],
      [kind |-> "predicate", denies |-> TRUE, msg |-> "no permission"] }

\* hasattr(self, '_failed_authorization'), and what the hook does
Hooks == {"absent", "returns", "aborts"}

\* _check_security is entered for a controller and a requester
CheckSecurity(a, anon, h) ==
    /\ s_pc = "idle"
    /\ s_pc' = "allow_only"
    /\ allow_only' = a
    /\ anonymous' = anon
    /\ hook' = h
    /\ UNCHANGED <<reason, code, status, response_status, flashed, aborted,
                   authorized, s_log, callVars, parseVars>>

\* lines 298-302
GetRequirement ==
    /\ s_pc = "allow_only"
    /\ IF allow_only.kind = "none"
       THEN /\ authorized' = "True"
            /\ s_pc' = "returned"
       ELSE /\ authorized' = authorized
            /\ s_pc' = allow_only.kind
    /\ UNCHANGED <<allow_only, anonymous, hook, reason, code, status,
                   response_status, flashed, aborted, s_log, callVars,
                   parseVars>>

\* lines 303-305: a full requirement denies by leaving with its own response
CheckRequirement ==
    /\ s_pc = "requirement"
    /\ IF allow_only.denies
       THEN /\ authorized' = authorized
            /\ s_pc' = "raised"
       ELSE /\ authorized' = "True"
            /\ s_pc' = "returned"
    /\ UNCHANGED <<allow_only, anonymous, hook, reason, code, status,
                   response_status, flashed, aborted, s_log, callVars,
                   parseVars>>

\* lines 313-316: where a failed predicate goes first
AfterFailure(h) == IF h = "absent" THEN "classify" ELSE "hook"

\* lines 308-313: a met predicate falls off the end of the method
CheckPredicate ==
    /\ s_pc = "predicate"
    /\ IF allow_only.denies
       THEN /\ reason' = allow_only.msg
            /\ authorized' = authorized
            /\ s_pc' = AfterFailure(hook)
       ELSE /\ reason' = reason
            /\ authorized' = "None"
            /\ s_pc' = "returned"
    /\ UNCHANGED <<allow_only, anonymous, hook, code, status, response_status,
                   flashed, aborted, s_log, callVars, parseVars>>

FailedAuthorization_return ==
    /\ s_pc = "hook"
    /\ s_log' = Append(s_log, [step |-> "hook", arg |-> reason])
    /\ s_pc' = IF hook = "aborts" THEN "raised" ELSE "returned"
    /\ UNCHANGED <<allow_only, anonymous, hook, reason, code, status,
                   response_status, flashed, aborted, authorized, callVars,
                   parseVars>>

\* lines 313-316: self._failed_authorization(reason)
FailedAuthorization ==
    /\ s_pc = "hook"
    /\ s_log' = Append(s_log, [step |-> "hook", arg |-> reason])
    /\ s_pc' = IF hook = "aborts" THEN "raised" ELSE "classify"
    /\ UNCHANGED <<allow_only, anonymous, hook, reason, code, status,
                   response_status, flashed, aborted, authorized, callVars,
                   parseVars>>

DenialCode_forbidden(is_authenticated) == 403

\* lines 317-324: code
DenialCode(is_authenticated) == IF is_authenticated THEN 403 ELSE 401

\* lines 317-324: status
DenialStatus(is_authenticated) ==
    IF is_authenticated THEN "error" ELSE "warning"

\* lines 317-324: not_anonymous().is_met(tg.request.environ)
Classify ==
    /\ s_pc = "classify"
    /\ code' = DenialCode(~anonymous)
    /\ status' = DenialStatus(~anonymous)
    /\ s_pc' = "status"
    /\ UNCHANGED <<allow_only, anonymous, hook, reason, response_status,
                   flashed, aborted, authorized, s_log, callVars, parseVars>>

\* line 325
SetStatus ==
    /\ s_pc = "status"
    /\ response_status' = code
    /\ s_log' = Append(s_log, [step |-> "status", arg |-> code])
    /\ s_pc' = "flash"
    /\ UNCHANGED <<allow_only, anonymous, hook, reason, code, status, flashed,
                   aborted, authorized, callVars, parseVars>>

\* line 326
Flash ==
    /\ s_pc = "flash"
    /\ flashed' = [message |-> reason, status |-> status]
    /\ s_log' = Append(s_log, [step |-> "flash", arg |-> status])
    /\ s_pc' = "abort"
    /\ UNCHANGED <<allow_only, anonymous, hook, reason, code, status,
                   response_status, aborted, authorized, callVars, parseVars>>

\* line 327
Abort ==
    /\ s_pc = "abort"
    /\ aborted' = [code |-> code, comment |-> reason]
    /\ s_log' = Append(s_log, [step |-> "abort", arg |-> code])
    /\ s_pc' = "aborted"
    /\ UNCHANGED <<allow_only, anonymous, hook, reason, code, status,
                   response_status, flashed, authorized, callVars, parseVars>>

\* the check is over; the next one starts with a new response
SecLeave ==
    /\ s_pc \in {"returned", "aborted", "raised"}
    /\ s_pc' = "idle"
    /\ allow_only' = [kind |-> "none", denies |-> FALSE, msg |-> NoReason]
    /\ anonymous' = TRUE
    /\ hook' = "absent"
    /\ reason' = NoReason
    /\ code' = OK
    /\ status' = "ok"
    /\ response_status' = OK
    /\ flashed' = NoFlash
    /\ aborted' = NoAbort
    /\ authorized' = "unset"
    /\ s_log' = <<>>
    /\ UNCHANGED <<callVars, parseVars>>

SecNext ==
    \/ \E a \in AllowOnlys, anon \in BOOLEAN, h \in Hooks :
          CheckSecurity(a, anon, h)
    \/ GetRequirement
    \/ CheckRequirement
    \/ CheckPredicate
    \/ FailedAuthorization
    \/ Classify
    \/ SetStatus
    \/ Flash
    \/ Abort
    \/ SecLeave

SecSpec == Init /\ [][SecNext]_vars

\* the interpreter keeps executing the check it is running
SecFairSpec == SecSpec /\ WF_vars(SecNext)

(***************************************************************************)
(* Properties                                                              *)
(***************************************************************************)
RequestOrder ==
    <<"before_validate", "validate", "before_call", "call", "before_render",
      "render", "after_render", "return">>

\* the steps a request that returned a body went through: the fixed order,
\* with the chained validations of error handlers inside the validation phase
OrderedSteps(l) ==
    LET k == Len(l) - Len(RequestOrder)
    IN  /\ k >= 0
        /\ \A i \in 1..Len(l) :
              l[i].ev = IF i <= 2 THEN RequestOrder[i]
                        ELSE IF i <= 2 + k THEN "chain_validate"
                        ELSE RequestOrder[i - k]

\* C1: a request that returns a body went, in this order and each exactly
\* once, through before_validate, the validation phase (the validation of
\* the action and, when chained, of error handlers), before_call, the
\* invocation of the bound callable through the decoration's
\* controller_caller, before_render, _render_response, after_render and the
\* return of the rendered body; no step raised.
C1_EventOrder ==
    pc = "done" =>
        /\ OrderedSteps(log)
        /\ \A i \in 1..Len(log) : log[i].raised = NoException
        /\ invoked.callable = bound_controller_callable
        /\ invoked.caller = ControllerCaller(action.func)
        /\ body = response.response

C1_Witness ==
    pc = "done" /\ failures > 0 /\ chainCount > 0 /\ OrderedSteps(log)

RECURSIVE CheckedBy(_, _)
CheckedBy(vs, p) ==
    IF vs = <<>> THEN p ELSE CheckedBy(Tail(vs), Check(Head(vs), p))

\* outcome (a): every intent passed, the action itself is bound, the status
\* holds the validated parameters
ValidatedOutcome ==
    /\ iterOutcome = "passed"
    /\ bound_controller_callable = BoundMethod(origAction)
    /\ action = origAction
    /\ validation.values =
          CheckedBy(Validations(origAction.func), validate_params)
    /\ validation.exception = NoException

\* outcome (b): a failure was raised, an error handler is bound in place of
\* the action, the status records the failure
SubstitutedOutcome ==
    /\ lastInvalid \in Invalids
    /\ bound_controller_callable.kind = "partial"
    /\ bound_controller_callable.callable = error_handler
    /\ action = error_handler
    /\ validation.exception = lastInvalid

\* C2: when the validation phase is over exactly one of the two outcomes
\* holds: validated parameters with the action bound, or a recorded failure
\* with an error handler bound.
C2_ExactlyOneOutcome ==
    pc = "before_call" =>
        /\ ValidatedOutcome \/ SubstitutedOutcome
        /\ ~(ValidatedOutcome /\ SubstitutedOutcome)
        /\ ValidatedOutcome <=> failures = 0

C2_Witness ==
    /\ pc = "before_call"
    /\ SubstitutedOutcome
    /\ bound_controller_callable.callable = default_im_func(origAction)

\* C3: inside a request the error map is empty unless a validation failure
\* was raised in this request; the status is fresh when the request starts,
\* whatever an earlier request left.
C3_ErrorsOnlyAfterFailure ==
    /\ pc # "idle" =>
          (validation.errors # EmptyMap => failures > 0)
    /\ pc \in {"before_validate", "merge", "validate"} =>
          validation = NewValidationStatus

C3_Witness ==
    pc = "chain" /\ failures > 0 /\ validation.errors # EmptyMap

Decoded(rem) == [i \in 1..Len(rem) |-> url2pathname(rem[i])]

\* C4 as claimed: with no configured validations the params given to the
\* invocation are the params _call received.
C4_IdentityPassThrough ==
    (invoked # NotInvoked /\ Validations(origAction.func) = <<>>) =>
        invoked.params = params0

\* C4: with no configured validations _perform_validate returns its argument
\* unchanged and leaves the validation status alone; the invocation gets the
\* received params after the merge with the remainder and after
\* flatten_arguments.
C4_PassThrough ==
    (iterOutcome = "passed" /\ Validations(origAction.func) = <<>>) =>
        LET rem == Decoded(remainder0)
            merged == get_params_with_argspec(origAction, params0, rem)
            flat == flatten_arguments(origAction, merged, rem)
        IN  /\ validated = merged
            /\ validation = [NewValidationStatus EXCEPT !.values = merged]
            /\ failures = 0
            /\ invoked # NotInvoked =>
                  /\ invoked.params = flat.params
                  /\ invoked.remainder = flat.remainder

C4_Witness ==
    /\ invoked # NotInvoked
    /\ Validations(origAction.func) = <<>>
    /\ invoked.params # params0

\* the lines of a text and the parts of a line, by position
LineStarts(t) == {1} \cup {i + 1 : i \in {j \in 1..Len(t) : t[j] = "\n"}}

LineAt(t, s) ==
    LET ends == {j \in s..Len(t) : t[j] = "\n"} \cup {Len(t) + 1}
        e == CHOOSE j \in ends : \A j2 \in ends : j <= j2
    IN  SubSeq(t, s, e - 1)

Trimmed(s) ==
    LET keep == {i \in 1..Len(s) : s[i] \notin Whitespace}
    IN  IF keep = {} THEN <<>>
        ELSE SubSeq(s, CHOOSE i \in keep : \A j \in keep : i <= j,
                       CHOOSE i \in keep : \A j \in keep : i >= j)

Colons(l) == {i \in 1..Len(l) : l[i] = ":"}

FirstColon(l) == CHOOSE i \in Colons(l) : \A j \in Colons(l) : i <= j

LineKey(l) ==
    IF Colons(l) = {} THEN THE_FORM
    ELSE Trimmed(SubSeq(l, 1, FirstColon(l) - 1))

LineMessage(l) ==
    IF Colons(l) = {} THEN Trimmed(l)
    ELSE Trimmed(SubSeq(l, FirstColon(l) + 1, Len(l)))

\* the error map the text t leaves, written over the map `before`
ExpectedErrors(before, t) ==
    LET keys == {LineKey(LineAt(t, s)) : s \in LineStarts(t)}
        last(k) == CHOOSE s \in LineStarts(t) :
                      /\ LineKey(LineAt(t, s)) = k
                      /\ \A s2 \in LineStarts(t) :
                            LineKey(LineAt(t, s2)) = k => s2 <= s
    IN  [k \in keys \cup DOMAIN before |->
            IF k \in keys THEN LineMessage(LineAt(t, last(k))) ELSE before[k]]

ErrorsAB ==
    [k \in {<<"a">>, <<"b">>} |->
        IF k = <<"a">> THEN <<"b", "a", "d">> ELSE <<"b", "a", "d", "2">>]

\* C5: a generic failure's text is taken line by line; a line is cut at its
\* first colon only, both parts stripped, giving field -> message; a line
\* without a colon goes, stripped, under '_the_form'. The text
\* "a: bad\nb: bad2" gives exactly {a: 'bad', b: 'bad2'}.
C5_GenericParse ==
    p_done =>
        /\ p_errors = ExpectedErrors(p_before, p_msg)
        /\ (p_msg = MsgAB /\ p_before = EmptyMap) => p_errors = ErrorsAB

C5_Witness ==
    p_done /\ p_msg = MsgAB /\ p_before = EmptyMap /\ p_errors = ErrorsAB

Functions == {"index", "save", "edit", "h1", "h2", "h3"}

\* the function whose decoration lists the intent
IntentOwner(v) ==
    CHOOSE f \in Functions :
        \E i \in 1..Len(Validations(f)) : Validations(f)[i] = v

\* a failure was just classified and the status names no error handler
FellBack ==
    /\ pc = "chain"
    /\ iterOutcome = "failed"
    /\ StatusErrorHandler(validation) = NoMethod

\* C6: when the status names no error handler the classifier returns the
\* underlying function of the controller whose validation failed, with
\* chain_validation false whatever the status's own flag is, and the next
\* step of _call binds the handler: no further chained validation runs.
C6_FallbackNoChain ==
    [][FellBack =>
          /\ error_handler = Method(IntentOwner(validation.intent), NoObject)
          /\ chainCount = 0 => error_handler = default_im_func(origAction)
          /\ ~chain_validation
          /\ pc' = "before_call"
          /\ chainCount' = chainCount]_vars

C6_Witness ==
    FellBack /\ StatusChainValidation(validation) /\ chainCount > 0

\* the classification of the latest failure asks for chaining
ChainRequested(st) ==
    StatusErrorHandler(st) # NoMethod /\ StatusChainValidation(st)

\* the explored iterations are used up and every one failed and asked again
StillChaining ==
    /\ pc = "chain"
    /\ chainCount = MaxChain
    /\ chain_validation
    /\ iterOutcome = "failed"
    /\ ChainRequested(validation)

\* C7: an iteration of the chained-validation loop leaves the loop running
\* exactly when the handler's validation failed and the classification asked
\* for chaining again; with the flag false the next step is the binding that
\* leads to before_call; so the loop ends, and before_call is reached, unless
\* the handlers keep failing and asking for chaining (or something else is
\* raised out of _call).
C7_ChainTerminates ==
    /\ [][(pc = "chain" /\ chain_validation /\ pc' # "raised") =>
             (chain_validation' <=>
                 (iterOutcome' = "failed" /\ ChainRequested(validation')))]_vars
    /\ [][(pc = "chain" /\ ~chain_validation) => pc' = "before_call"]_vars
    /\ (pc = "chain") ~> (pc \in {"before_call", "raised"} \/ StillChaining)

C7_Witness ==
    pc = "before_call" /\ chainCount > 1 /\ iterOutcome = "passed"

\* C8 as claimed: every chained validation is preceded by a before_validate
\* notification for that error handler, and the params are merged again
\* against the error handler's signature.
C8_RepeatsHookAndMerge ==
    \A i \in 1..Len(log) :
        log[i].ev = "chain_validate" =>
            /\ i > 1
            /\ log[i - 1].ev = "before_validate"
            /\ log[i - 1].controller = log[i].controller
            /\ validate_params =
                  get_params_with_argspec(log[i].controller, params0,
                                          Decoded(remainder0))

\* C8: a chain iteration repeats the validation only: _perform_validate runs
\* against the error handler, on the params merged once against the
\* action's signature; before_validate is notified once, for the action.
C8_RepeatsValidationOnly ==
    /\ \A i \in 1..Len(log) :
          log[i].ev = "before_validate" =>
              i = 1 /\ log[i].controller = origAction
    /\ chainCount > 0 =>
          /\ validate_params =
                get_params_with_argspec(origAction, params0,
                                        Decoded(remainder0))
          /\ args_params = validate_params
    /\ (chainCount > 0 /\ pc = "chain") =>
          LET target == log[Len(log)].controller
          IN  /\ log[Len(log)].ev = "chain_validate"
              /\ iterOutcome = "failed" =>
                    IntentOwner(validation.intent) = target.func
              /\ iterOutcome = "passed" =>
                    /\ validated =
                          CheckedBy(Validations(target.func), validate_params)
                    /\ Validations(target.func) # <<>> =>
                          validation.intent =
                             Validations(target.func)[Len(Validations(target.func))]

C8_Witness ==
    /\ pc = "chain"
    /\ chainCount > 0
    /\ iterOutcome = "failed"
    /\ log[Len(log)].controller # origAction
    /\ Len(log) = 2 + chainCount

\* C9 as claimed: a validation failure never leaves _call, whichever of the
\* before_validate hook, the validation, the before_call hook or the
\* controller method raised it.
C9_ValidationFailureNeverEscapes ==
    ~(pc = "raised" /\ IsValidationError(exc))

\* C10: an exception other than a validation failure raised by the
\* invocation or by the rendering leaves _call: it is the last step of the
\* request, no handler is substituted, no hook is notified after it and no
\* body is returned.
C10_OtherErrorsPropagate ==
    \A i \in 1..Len(log) :
        (log[i].ev \in {"call", "render"} /\ log[i].raised = OtherError) =>
            /\ i = Len(log)
            /\ pc = "raised"
            /\ exc = OtherError
            /\ body = NoOutput
            /\ response = NoResponse
            /\ action = log[i].controller
            /\ bound_controller_callable = invoked.callable

C10_Witness ==
    /\ pc = "raised"
    /\ exc = OtherError
    /\ log[Len(log)].ev = "render"
    /\ log[Len(log) - 1].ev = "before_render"

(***************************************************************************)
(* Rendering                                                               *)
(***************************************************************************)
\* the rendering step of a request that did not raise
Rendered == pc = "render" /\ pc' = "after_render"

\* the names an engine excludes
Excluded(eng) == {eng.exclude_names[i] : i \in DOMAIN eng.exclude_names}

\* C11: when the controller output is a mapping, the namespace handed to the
\* template renderer is the output without the keys of the exclude list and
\* with every other key and value unchanged; an excluded key that the output
\* does not have is ignored.
C11_ExcludedNamesRemoved ==
    [][(Rendered /\ output.kind = "dict") =>
          \E eng \in Engines :
              /\ eng.engine_name = response'.engine_name
              /\ response'.response.kind = "rendered"
              /\ response'.response.template_vars =
                     [k \in DOMAIN output.map \ Excluded(eng) |-> output.map[k]]
      ]_vars

C11_Witness ==
    /\ pc = "after_render"
    /\ Len(render_calls) = 2
    /\ response.engine_name = "json"
    /\ "z" \in Excluded(CHOOSE eng \in Engines : eng.engine_name = "json")
    /\ response.response.template_vars = [k \in {"x"} |-> <<"1">>]

JsonUtf8 ==
    <<"a", "p", "p", "l", "i", "c", "a", "t", "i", "o", "n", "/", "j", "s",
      "o", "n", ";", " ", "c", "h", "a", "r", "s", "e", "t", "=", "u", "t",
      "f", "-", "8">>

\* the word charset occurs in v
NamesCharset(v) ==
    \E i \in 1..Len(v) :
        /\ i + 6 <= Len(v)
        /\ [j \in 1..7 |-> v[i + j - 1]] = <<"c", "h", "a", "r", "s", "e", "t">>

\* v starts with text
IsTextual(v) ==
    /\ Len(v) >= 4
    /\ v[1] = "t" /\ v[2] = "e" /\ v[3] = "x" /\ v[4] = "t"

\* the content type a response without one takes from a suggestion
Suggested(v) ==
    IF /\ ~NamesCharset(v)
       /\ \/ IsTextual(v)
          \/ v \in { ApplicationJson,
                     <<"a", "p", "p", "l", "i", "c", "a", "t", "i", "o", "n",
                       "/", "x", "m", "l">>,
                     <<"a", "p", "p", "l", "i", "c", "a", "t", "i", "o", "n",
                       "/", "x", "h", "t", "m", "l", "+", "x", "m", "l">> }
    THEN v \o <<";", " ", "c", "h", "a", "r", "s", "e", "t", "=", "u", "t",
                "f", "-", "8">>
    ELSE v

\* C12: a response without a content type takes the one the engine suggests,
\* with '; charset=utf-8' appended exactly when the suggestion names no
\* charset and starts with 'text' or is application/xhtml+xml,
\* application/xml or application/json; a response that has a content type,
\* or an engine that suggests none, leaves the content type as it was.
C12_ContentTypeDefault ==
    [][Rendered =>
          IF ~resp_content_type.present /\ response'.content_type.present
          THEN /\ resp_content_type'.present
               /\ resp_content_type'.value =
                      Suggested(response'.content_type.value)
          ELSE resp_content_type' = resp_content_type
      ]_vars

C12_Witness ==
    /\ pc = "after_render"
    /\ response.content_type = ContentType(ApplicationJson)
    /\ resp_content_type = ContentType(JsonUtf8)

\* the lookup of the template engine on the decoration of the controller
Lookup(controller) ==
    [call |-> "lookup_template_engine", decoration |-> controller.func]

\* C13 as claimed: an output that is not a mapping is returned unchanged as
\* the body and no collaborator is called for it, neither the template
\* lookup nor the renderer.
C13_NoLookupForStrings ==
    (pc \in {"after_render", "return", "done"} /\ output.kind # "dict") =>
        /\ render_calls = <<>>
        /\ response.response = output
        /\ pc = "done" => body = output

\* C13: an output that is not a mapping is returned unchanged as the body;
\* the template engine is looked up on the decoration, the renderer is
\* never called and the exclude list is not applied to the output.
C13_StringsReturnedUnrendered ==
    (pc \in {"after_render", "return", "done"} /\ output.kind # "dict") =>
        /\ render_calls = <<Lookup(action)>>
        /\ response.response = output
        /\ output \in Outputs
        /\ pc = "done" => body = output

C13_Witness ==
    /\ pc = "done"
    /\ output.kind = "list"
    /\ body = output
    /\ response.engine_name = "raw"
    /\ output.items[1] \in Excluded(CHOOSE eng \in Engines : eng.engine_name = "raw")
    /\ render_calls = <<Lookup(action)>>

(***************************************************************************)
(* Authorization                                                           *)
(***************************************************************************)
\* C14: with a bare predicate a denial is classified by the requester's
\* identity alone: an anonymous requester gets response status 401, flash
\* severity 'warning' and abort(401), an authenticated one 403, 'error' and
\* abort(403); the response status, the flash severity and the abort code
\* agree whenever they are set; a controller without allow_only is
\* authorized with no status, flash or abort.
C14_DenialByIdentity ==
    /\ (s_pc = "aborted" /\ allow_only.kind = "predicate") =>
           /\ response_status = IF anonymous THEN 401 ELSE 403
           /\ flashed.status = IF anonymous THEN "warning" ELSE "error"
           /\ flashed.message = allow_only.msg
           /\ aborted.code = IF anonymous THEN 401 ELSE 403
    /\ flashed # NoFlash =>
           /\ response_status \in {401, 403}
           /\ flashed.status = "warning" <=> response_status = 401
           /\ flashed.status = "error" <=> response_status = 403
    /\ aborted # NoAbort =>
           /\ flashed # NoFlash
           /\ aborted.code = response_status
    /\ (s_pc = "returned" /\ allow_only.kind = "none") =>
           /\ authorized = "True"
           /\ response_status = OK
           /\ flashed = NoFlash
           /\ aborted = NoAbort
           /\ s_log = <<>>

C14_Witness ==
    /\ s_pc = "aborted"
    /\ allow_only.kind = "predicate"
    /\ ~anonymous
    /\ response_status = 403
    /\ flashed.status = "error"
    /\ aborted.code = 403

\* the steps of a denial, in the order the code takes them
DenialSteps ==
    (IF hook = "absent" THEN <<>> ELSE <<"hook">>)
        \o <<"status", "flash", "abort">>

\* a bare predicate has failed in the running check
PredicateFailed == reason # NoReason

\* C15: when a bare predicate fails, the _failed_authorization hook (if the
\* controller has one) is called with the reason, then the response status
\* is set, then the flash is emitted, then the request is aborted; when the
\* hook returns the abort is always reached, and a failed predicate never
\* returns from the check.
C15_DenialOrder ==
    /\ [](/\ Len(s_log) <= Len(DenialSteps)
          /\ \A i \in 1..Len(s_log) : s_log[i].step = DenialSteps[i]
          /\ \A i \in 1..Len(s_log) :
                 s_log[i].step = "hook" => s_log[i].arg = reason
          /\ s_log # <<>> => PredicateFailed
          /\ PredicateFailed => s_pc # "returned"
          /\ s_pc = "aborted" => Len(s_log) = Len(DenialSteps))
    /\ ((PredicateFailed /\ hook # "aborts") ~> s_pc = "aborted")

C15_Witness ==
    /\ s_pc = "aborted"
    /\ hook = "returns"
    /\ PredicateFailed
    /\ Len(s_log) = 4

(***************************************************************************)
(* The validation runner and the classifier inside a request               *)
(***************************************************************************)
\* the step is a run of _perform_validate
Validated ==
    /\ Len(log') = Len(log) + 1
    /\ log'[Len(log')].ev \in {"validate", "chain_validate"}

\* the intents of the controller the step validated against
Declared == Validations(log'[Len(log')].controller.func)

\* C16: _perform_validate applies the intents of the controller in declared
\* order, the first on the params it was given and each next one on the
\* output of the one before, and returns the last output; the status's
\* intent is set to an intent before its check, so when a check raises no
\* later intent is run, the failure leaves the runner and the status names
\* the failing intent.
C16_IntentsInOrder ==
    [][Validated =>
          /\ Len(checked') <= Len(Declared)
          /\ \A i \in 1..Len(checked') :
                 /\ checked'[i].intent = Declared[i]
                 /\ checked'[i].status_intent = Declared[i]
                 /\ checked'[i].input =
                        IF i = 1 THEN validate_params
                        ELSE Check(Declared[i - 1], checked'[i - 1].input)
          /\ iterOutcome' = "passed" =>
                 /\ Len(checked') = Len(Declared)
                 /\ validated' =
                        IF Declared = <<>> THEN validate_params
                        ELSE Check(Declared[Len(Declared)],
                                   checked'[Len(Declared)].input)
          /\ iterOutcome' # "passed" =>
                 /\ checked' # <<>>
                 /\ validation'.intent = checked'[Len(checked')].intent
                 /\ \/ pc' = "raised" /\ exc' = OtherError
                    \/ pc' = "chain" /\ lastInvalid' \in Invalids
                                     /\ validation'.exception = lastInvalid'
      ]_vars

C16_Witness ==
    /\ iterOutcome = "failed"
    /\ Len(log) > 0
    /\ Len(Validations(log[Len(log)].controller.func)) = 3
    /\ Len(checked) = 2
    /\ checked[2].input = Check(checked[1].intent, checked[1].input)
    /\ checked[2].input # checked[1].input
    /\ validation.intent = checked[2].intent

\* the lines of the text t that carry the key k
LinesOf(t, k) == {s \in LineStarts(t) : LineKey(LineAt(t, s)) = k}

\* C17: in the generic branch a key that several lines carry, a field name
\* or '_the_form' for lines without a colon, holds the message of the last
\* of these lines only, one string and not a list of the messages.
C17_LastWriteWins ==
    p_done =>
        /\ \A s \in LineStarts(p_msg) :
               LET k == LineKey(LineAt(p_msg, s))
               IN  (\A s2 \in LinesOf(p_msg, k) : s2 <= s) =>
                       /\ k \in DOMAIN p_errors
                       /\ p_errors[k] = LineMessage(LineAt(p_msg, s))
        /\ p_msg = MsgDupField => p_errors[<<"a">>] = <<"y">>
        /\ p_msg = MsgDupForm => p_errors[THE_FORM] = <<"y">>

C17_Witness ==
    /\ p_done
    /\ p_msg = MsgDupField
    /\ p_before = EarlierErrors
    /\ Cardinality(LinesOf(p_msg, <<"a">>)) = 2
    /\ p_errors = [k \in {<<"a">>} |-> <<"y">>]

\* C18 as claimed: the bound callable is the original method or an error
\* handler bound to the instance owning the originally dispatched action,
\* on every failure path, chained validation included.
C18_BoundToOwningInstance ==
    bound_controller_callable # NotBound =>
        \/ bound_controller_callable = BoundMethod(origAction)
        \/ /\ bound_controller_callable.kind = "partial"
           /\ bound_controller_callable.callable = error_handler
           /\ bound_controller_callable.first = im_self(origAction)

\* the steps of a request that come after the validation
LaterSteps == {"before_call", "call", "before_render", "render", "after_render"}

\* after a validation failure the error handler is the target of every
\* later step and, with no chaining, is given the remainder rem and the
\* received params; without a failure the invocation gets the validated
\* params after flatten_arguments
HandlerIsTarget(rem) ==
    /\ (failures > 0 /\ bound_controller_callable # NotBound) =>
           /\ action = error_handler
           /\ bound_controller_callable = Partial(error_handler, instance)
           /\ \A i \in 1..Len(log) :
                  /\ log[i].ev = "before_validate" =>
                         log[i].controller = origAction
                  /\ log[i].ev \in LaterSteps =>
                         log[i].controller = error_handler
           /\ invoked # NotInvoked =>
                  /\ invoked.caller = ControllerCaller(error_handler.func)
                  /\ invoked.callable = bound_controller_callable
                  /\ invoked.callable.callable.func = origAction.func =>
                         StatusErrorHandler(validation) = NoMethod
                  /\ chainCount = 0 =>
                         /\ invoked.params = params0
                         /\ invoked.remainder = rem
           /\ render_calls # <<>> => render_calls[1] = Lookup(error_handler)
    /\ (failures = 0 /\ invoked # NotInvoked) =>
           LET flat == flatten_arguments(origAction, validated,
                                         Decoded(remainder0))
           IN  /\ invoked.callable = BoundMethod(origAction)
               /\ invoked.params = flat.params
               /\ invoked.remainder = flat.remainder

\* C19 as claimed: after a validation failure the error handler replaces
\* the target for the rest of the request and, with no chaining, is given
\* the remainder and the params exactly as _call received them.
C19_HandlerGetsReceivedArguments == HandlerIsTarget(remainder0)

\* C19: after a validation failure the error handler replaces the target
\* for the rest of the request: before_validate saw the original action,
\* the later hooks see the error handler, the controller_caller and the
\* template engine lookup come from the handler's decoration; with no
\* chaining the handler is given the received params and the received
\* remainder with every segment URL-unquoted; on the success path the
\* invocation gets the validated params after flatten_arguments.
C19_HandlerReplacesTarget == HandlerIsTarget(Decoded(remainder0))

C19_Witness ==
    /\ pc = "done"
    /\ failures = 1
    /\ chainCount = 0
    /\ action = error_handler
    /\ action # origAction
    /\ render_calls[1] = Lookup(error_handler)
    /\ invoked.params = params0
    /\ invoked.params # validate_params
    /\ invoked.remainder # remainder0
    /\ invoked.remainder = Decoded(remainder0)

\* the step caught a validation failure
FailureCaught == failures' = failures + 1

\* the keys and messages a widget failure carries
WidgetErrors(e) ==
    [k \in {e.children[i].compound_key : i \in DOMAIN e.children} |->
        LET i == CHOOSE i \in DOMAIN e.children : e.children[i].compound_key = k
        IN  e.children[i].error_msg]

\* the keys the lines of a generic failure's text write
WrittenKeys(t) == {LineKey(LineAt(t, s)) : s \in LineStarts(t)}

\* C20: a widget-style or structured failure replaces the error map by its
\* own map, a generic failure writes its entries into the map as it is, so
\* that entries of an earlier failure of the request survive a later
\* generic failure unless overwritten and never survive a later widget or
\* structured failure; values and exception are those of the latest failure.
C20_ErrorMapAcrossFailures ==
    [][FailureCaught =>
          LET e == lastInvalid'
          IN  /\ validation'.exception = e
              /\ e.shape = "tw2" =>
                     /\ validation'.errors = WidgetErrors(e)
                     /\ validation'.values = e.value
              /\ e.shape = "tg" =>
                     /\ validation'.errors = e.error_dict
                     /\ validation'.values = e.value
              /\ e.shape = "generic" =>
                     /\ DOMAIN validation'.errors =
                            DOMAIN validation.errors \cup WrittenKeys(e.text)
                     /\ \A k \in DOMAIN validation.errors \ WrittenKeys(e.text) :
                            validation'.errors[k] = validation.errors[k]
                     /\ validation'.errors =
                            ExpectedErrors(validation.errors, e.text)
                     /\ validation'.values =
                            IF e.has_value THEN e.value ELSE EmptyMap
      ]_vars

C20_Witness ==
    /\ failures = 2
    /\ lastInvalid.shape = "generic"
    /\ lastInvalid.text = MsgForm
    /\ validation.exception = lastInvalid
    /\ validation.errors =
           [k \in {<<"a">>, THE_FORM} |->
               IF k = <<"a">> THEN <<"m", "1">> ELSE MsgForm]

====
